---- MODULE Spec2Model ----
(***************************************************************************)
(* Model of pipx's venv.py: VenvContainer (a directory of virtual          *)
(* environments) and Venv (one environment: construction with shared-      *)
(* library reconciliation, create_venv, remove_venv, install / upgrade of  *)
(* packages and the pipx metadata document kept for the environment).      *)
(*                                                                         *)
(* The filesystem under the container root, the shared-libraries venv      *)
(* (pipx.shared_libs.shared_libs, a module-level singleton) and every live *)
(* Venv object are the state.  Subprocess results (python -m venv, pip,    *)
(* the metadata inspector) are inputs chosen by \E in the actions.         *)
(***************************************************************************)
EXTENDS Integers, Sequences, FiniteSets, TLC

VARIABLES
    container,\* TRUE iff the container root is a directory
    fs,       \* fs[r]: what is on disk at path <container root>/r
    shared,   \* state of the shared-libraries venv
    venvs,    \* the Venv objects constructed so far, in order of construction
    ops,      \* number of operations run so far
    last,     \* the operation that ran last: its arguments, inputs and outcome
    constructing \* per process: how far its Venv(path) has run, step by step

vars == <<container, fs, shared, venvs, ops, last, constructing>>

-----------------------------------------------------------------------------
(* Bounds *)

\* number of Venv objects constructed in one run
MaxInst == 2
\* number of operations (constructor and method calls) in one run
MaxOps == 3
\* the most characters in a package name given to get_venv_dir
MaxNameLen == 3

-----------------------------------------------------------------------------
(* Values *)

\* entries directly under the container root
Roots == {"r1", "r2"}
\* names of distributions pip can install
Packages == {"foo", "bar"}
\* Python's None
None == "None"
\* package_or_url as the caller gives it ("raw") and as
\* fix_package_name + parse_specifier_for_install return it ("norm")
Specs == {"raw", "norm"}
\* VenvMetadata.package_version as the inspector reports it
Versions == {None, "1.0"}
\* results of the metadata inspector: output that is no usable JSON object,
\* or an object carrying a package_version
Malformed == "malformed"
IntrospectionResults == {Malformed} \cup Versions
\* what running pip gives: it ran and exited 0, it ran and exited non-zero,
\* or the interpreter of the venv could not be started
PipExit0 == "exit 0"
PipNonZero == "exit 1"
PipNotLaunched == "not launched"
\* the operation ran no pip
PipNotRun == "not run"
\* the venv_args a caller passes to create_venv
VenvArgs == {<<>>, <<"--system-site-packages">>}
\* what get_python_version returns
PythonVersion == "Python 3.8"
\* content written to pipx_shared.pth: shared_libs.site_packages
SharedSitePackages == "shared/site-packages"

\* PackageInfo of a PipxMetadata with no main package
NoPackage == [package |-> None, package_or_url |-> None, package_version |-> None]

\* PipxMetadata(): no main package, no injected packages
EmptyMetadata ==
    [main_package      |-> NoPackage,
     injected_packages |-> [p \in {} |-> NoPackage],
     venv_args         |-> <<>>,
     python_version    |-> None]

\* pipx_metadata.json under a root: no file, or the file holding document d
NoFile == <<>>
StoredFile(d) == <<d>>

\* a path that does not exist
Missing ==
    [kind |-> "missing", venv |-> FALSE, pth |-> None,
     installed |-> {}, metadata_file |-> NoFile]

\* a regular file
File ==
    [kind |-> "file", venv |-> FALSE, pth |-> None,
     installed |-> {}, metadata_file |-> NoFile]

\* an empty directory
EmptyDir ==
    [kind |-> "dir", venv |-> FALSE, pth |-> None,
     installed |-> {}, metadata_file |-> NoFile]

\* an environment of a pipx that knew neither shared libraries nor metadata
LegacyVenv ==
    [kind |-> "dir", venv |-> TRUE, pth |-> None,
     installed |-> {"foo"}, metadata_file |-> NoFile]

\* an environment an earlier session created and installed "foo" into
LinkedVenv ==
    [kind |-> "dir", venv |-> TRUE, pth |-> SharedSitePackages,
     installed |-> {"foo"},
     metadata_file |-> StoredFile(
        [main_package      |-> [package |-> "foo",
                                package_or_url |-> "metadata form of norm",
                                package_version |-> "1.0"],
         injected_packages |-> [p \in {} |-> NoPackage],
         venv_args         |-> <<>>,
         python_version    |-> PythonVersion])]

\* states of the shared-libraries venv
SharedStates == {"invalid", "current", "stale"}

\* the processes that run pipx on the machine
Procs == {"p1", "p2"}

\* a process that has not called Venv(path): `pc` is the statement it is at,
\* `calls` the shared_libs methods it has called, `first` and `final` what
\* its two reads of shared_libs.is_valid returned
NotConstructing ==
    [pc |-> "idle", root |-> None, calls |-> <<>>, first |-> None, final |-> None]

\* the record of an operation
NoOp ==
    [op |-> "none", inst |-> 0, root |-> None, package |-> None,
     package_or_url |-> None,   \* the specifier handed to pip
     is_main_package |-> FALSE,
     pip |-> PipNotRun,         \* how the subprocess the operation ran ended
     introspection |-> None,
     venv_args |-> <<>>,        \* the venv_args given to create_venv
     yielded |-> <<>>,          \* the paths iter_venv_dirs handed out
     error |-> None, calls |-> <<>>, result |-> None]

-----------------------------------------------------------------------------
(* pipx.shared_libs.shared_libs *)

is_valid(s) == s # "invalid"

needs_upgrade(s) == s = "stale"

\* shared_libs.create: installs the shared venv when it is invalid, which may
\* fail to make it valid; does nothing when it is valid
shared_libs_create(s) == IF is_valid(s) THEN {s} ELSE {"current", "invalid"}

\* shared_libs.upgrade: brings a stale shared venv up to date, which may fail
\* and leave it stale; (re)installs an invalid one
shared_libs_upgrade(s) ==
    IF ~is_valid(s) THEN shared_libs_create(s)
    ELSE IF needs_upgrade(s) THEN {"current", "stale"}
    ELSE {s}

-----------------------------------------------------------------------------
(* Venv.__init__ *)

\* next(self.root.iterdir()) finds an entry
HasEntry(f) == f.venv \/ f.pth # None \/ f.metadata_file # NoFile

\* self._existing computed as self.root.exists() alone
Existing_root_exists(f) == f.kind # "missing"

\* self._existing
Existing(f) == f.kind # "missing" /\ HasEntry(f)

\* uses_shared_libs that does not look for the marker file
uses_shared_libs_always(existing, f) == TRUE

\* Venv.uses_shared_libs
uses_shared_libs(existing, f) ==
    IF existing THEN f.pth # None ELSE TRUE

\* PipxMetadata(venv_dir=path): the stored document, or an empty one
ReadMetadata(f) ==
    IF f.metadata_file = NoFile THEN EmptyMetadata ELSE f.metadata_file[1]

\* the reconciliation without the final is_valid check
Reconcile_unchecked(existing, f, s) ==
    IF existing /\ uses_shared_libs(existing, f)
    THEN {[error |-> None, shared |-> s2,
           calls |-> IF is_valid(s) THEN <<>> ELSE <<"create">>]
          : s2 \in shared_libs_create(s)}
    ELSE {[error |-> None, shared |-> s, calls |-> <<>>]}

\* The shared-libraries part of Venv.__init__ for a root in state f with the
\* shared venv in state s: the calls made, the state they leave, the error
Reconcile(existing, f, s) ==
    IF existing /\ uses_shared_libs(existing, f)
    THEN LET call == IF is_valid(s)
                     THEN (IF needs_upgrade(s) THEN <<"upgrade">> ELSE <<>>)
                     ELSE <<"create">>
             after == IF call = <<"upgrade">> THEN shared_libs_upgrade(s)
                      ELSE IF call = <<"create">> THEN shared_libs_create(s)
                      ELSE {s}
         IN  {[error  |-> IF is_valid(s2) THEN None ELSE "shared venv invalid",
               shared |-> s2, calls |-> call] : s2 \in after}
    ELSE {[error |-> None, shared |-> s, calls |-> <<>>]}

\* Venv.__init__ statement by statement, run by process p: the statements
\* up to the test of self._existing and self.uses_shared_libs
CtorStart(p, r) ==
    /\ constructing[p].pc = "idle"
    /\ constructing' = [constructing EXCEPT ![p] =
          [@ EXCEPT !.root = r,
                    !.pc = IF Existing(fs[r]) /\ uses_shared_libs(Existing(fs[r]), fs[r])
                           THEN "is_valid" ELSE "return"]]
    /\ last' = [NoOp EXCEPT !.op = "Venv: start", !.root = r]
    /\ UNCHANGED <<container, fs, shared, venvs, ops>>

\* the first read of is_valid taken under a lock that no other process in
\* its reconciliation holds
CtorIsValid_locked(p) ==
    /\ constructing[p].pc = "is_valid"
    /\ \A q \in Procs \ {p} :
          constructing[q].pc \notin {"needs_upgrade", "upgrade", "create", "final"}
    /\ constructing' = [constructing EXCEPT ![p] =
          [@ EXCEPT !.first = IF is_valid(shared) THEN "valid" ELSE "invalid",
                    !.pc = IF is_valid(shared) THEN "needs_upgrade" ELSE "create"]]
    /\ last' = [NoOp EXCEPT !.op = "Venv: is_valid", !.root = constructing[p].root]
    /\ UNCHANGED <<container, fs, shared, venvs, ops>>

\* if shared_libs.is_valid: the first read of the shared venv's validity
CtorIsValid(p) ==
    /\ constructing[p].pc = "is_valid"
    /\ constructing' = [constructing EXCEPT ![p] =
          [@ EXCEPT !.first = IF is_valid(shared) THEN "valid" ELSE "invalid",
                    !.pc = IF is_valid(shared) THEN "needs_upgrade" ELSE "create"]]
    /\ last' = [NoOp EXCEPT !.op = "Venv: is_valid", !.root = constructing[p].root]
    /\ UNCHANGED <<container, fs, shared, venvs, ops>>

\* if shared_libs.needs_upgrade
CtorNeedsUpgrade(p) ==
    /\ constructing[p].pc = "needs_upgrade"
    /\ constructing' = [constructing EXCEPT ![p] =
          [@ EXCEPT !.pc = IF needs_upgrade(shared) THEN "upgrade" ELSE "final"]]
    /\ last' = [NoOp EXCEPT !.op = "Venv: needs_upgrade", !.root = constructing[p].root]
    /\ UNCHANGED <<container, fs, shared, venvs, ops>>

\* shared_libs.upgrade(verbose=verbose)
CtorUpgrade(p) ==
    /\ constructing[p].pc = "upgrade"
    /\ shared' \in shared_libs_upgrade(shared)
    /\ constructing' = [constructing EXCEPT ![p] =
          [@ EXCEPT !.calls = Append(@, "upgrade"), !.pc = "final"]]
    /\ last' = [NoOp EXCEPT !.op = "Venv: upgrade", !.root = constructing[p].root]
    /\ UNCHANGED <<container, fs, venvs, ops>>

\* shared_libs.create(verbose)
CtorCreate(p) ==
    /\ constructing[p].pc = "create"
    /\ shared' \in shared_libs_create(shared)
    /\ constructing' = [constructing EXCEPT ![p] =
          [@ EXCEPT !.calls = Append(@, "create"), !.pc = "final"]]
    /\ last' = [NoOp EXCEPT !.op = "Venv: create", !.root = constructing[p].root]
    /\ UNCHANGED <<container, fs, venvs, ops>>

\* if not shared_libs.is_valid: the final read of the shared venv's validity
CtorFinal(p) ==
    /\ constructing[p].pc = "final"
    /\ constructing' = [constructing EXCEPT ![p] =
          [@ EXCEPT !.final = IF is_valid(shared) THEN "valid" ELSE "invalid",
                    !.pc = IF is_valid(shared) THEN "return" ELSE "raise"]]
    /\ last' = [NoOp EXCEPT !.op = "Venv: final is_valid", !.root = constructing[p].root]
    /\ UNCHANGED <<container, fs, shared, venvs, ops>>

\* raise PipxError: the shared venv is invalid
CtorRaise(p) ==
    /\ constructing[p].pc = "raise"
    /\ constructing' = [constructing EXCEPT ![p].pc = "raised"]
    /\ last' = [NoOp EXCEPT !.op = "Venv", !.root = constructing[p].root,
                            !.error = "shared venv invalid",
                            !.calls = constructing[p].calls]
    /\ UNCHANGED <<container, fs, shared, venvs, ops>>

\* the constructor returns
CtorReturn(p) ==
    /\ constructing[p].pc = "return"
    /\ constructing' = [constructing EXCEPT ![p].pc = "returned"]
    /\ last' = [NoOp EXCEPT !.op = "Venv", !.root = constructing[p].root,
                            !.calls = constructing[p].calls]
    /\ UNCHANGED <<container, fs, shared, venvs, ops>>

\* the next statement of the constructor process p runs
CtorStep(p) ==
    \/ CtorIsValid(p)
    \/ CtorNeedsUpgrade(p)
    \/ CtorUpgrade(p)
    \/ CtorCreate(p)
    \/ CtorFinal(p)
    \/ CtorRaise(p)
    \/ CtorReturn(p)

\* a process other than the constructing ones removes, damages or rebuilds
\* the shared venv
OtherProcessChangesShared ==
    /\ shared' \in SharedStates \ {shared}
    /\ last' = [NoOp EXCEPT !.op = "shared venv changed"]
    /\ UNCHANGED <<container, fs, venvs, ops, constructing>>

\* Venv(path) that reconciles the shared venv for every path
VenvInit_always_reconciles(f, s) ==
    IF f.kind = "file"
    THEN {[error |-> "NotADirectoryError", existing |-> FALSE,
           shared |-> s, calls |-> <<>>]}
    ELSE {[error |-> o.error, existing |-> Existing(f),
           shared |-> o.shared, calls |-> o.calls]
          : o \in Reconcile(TRUE, LinkedVenv, s)}

\* every way Venv(path) can end for a path in state f: `existing` is the
\* value of self._existing, `error` the exception raised (None: it returns)
VenvInit(f, s) ==
    IF f.kind = "file"
    THEN {[error |-> "NotADirectoryError", existing |-> FALSE,
           shared |-> s, calls |-> <<>>]}
    ELSE {[error |-> o.error, existing |-> Existing(f),
           shared |-> o.shared, calls |-> o.calls]
          : o \in Reconcile(Existing(f), f, s)}

\* Venv(path) by a caller, for any path under the container root
Construct(r) ==
    /\ ops < MaxOps
    /\ Len(venvs) < MaxInst
    /\ \E o \in VenvInit(fs[r], shared) :
          /\ shared' = o.shared
          /\ venvs' = IF o.error = None
                      THEN Append(venvs, [root |-> r, existing |-> o.existing,
                                          pipx_metadata |-> ReadMetadata(fs[r])])
                      ELSE venvs
          /\ last' = [NoOp EXCEPT !.op = "Venv", !.root = r,
                                  !.inst = IF o.error = None THEN Len(venvs) + 1 ELSE 0,
                                  !.error = o.error, !.calls = o.calls]
    /\ ops' = ops + 1
    /\ UNCHANGED constructing
    /\ UNCHANGED <<container, fs>>

-----------------------------------------------------------------------------
(* Subprocesses *)

\* run_subprocess of the venv's interpreter (self.python_path) for a root in
\* state f: it cannot be started unless the venv is materialized
PipOutcomes(f) ==
    IF f.venv THEN {PipExit0, PipNonZero} ELSE {PipNotLaunched}

\* subprocess_post_check(process, raise_error): the error it raises
subprocess_post_check(pip, raise_error) ==
    IF pip # PipExit0 /\ raise_error THEN "subprocess failed" ELSE None

\* fix_package_name followed by parse_specifier_for_install
parse_specifier_for_install(package_or_url) == "norm"

\* parse_specifier_for_metadata: the form of a specifier kept in the metadata
parse_specifier_for_metadata(package_or_url) ==
    IF package_or_url = "raw" THEN "metadata form of raw"
    ELSE "metadata form of norm"

\* site-packages after pip ran "install" for `package`: the distribution is
\* there when pip exited 0 and the inspector finds its version
AfterInstall(f, package, pip, introspection) ==
    IF pip = PipExit0 /\ introspection \in Versions \ {None}
    THEN [f EXCEPT !.installed = @ \cup {package}]
    ELSE f

-----------------------------------------------------------------------------
(* Venv.create_venv, Venv.remove_venv, Venv.upgrade_packaging_libraries *)

\* create_venv that creates the shared venv before it checks how the venv
\* subprocess ended
create_venv_shared_first(v, f, s, venv_args, proc) ==
    IF proc # PipExit0
    THEN {[error |-> "subprocess failed", v |-> v, f |-> f, shared |-> s2,
           calls |-> <<"python -m venv", "create">>] : s2 \in shared_libs_create(s)}
    ELSE {[error  |-> None,
           v      |-> [v EXCEPT !.pipx_metadata.venv_args = venv_args,
                                !.pipx_metadata.python_version = PythonVersion],
           f      |-> [f EXCEPT !.kind = "dir", !.venv = TRUE,
                                !.pth = SharedSitePackages],
           shared |-> s2,
           calls  |-> <<"python -m venv", "create", "write pipx_shared.pth",
                        "set venv_args">>] : s2 \in shared_libs_create(s)}

\* create_venv that also writes the metadata document
create_venv_writes_metadata(v, f, s, venv_args, proc) ==
    IF proc # PipExit0
    THEN {[error |-> "subprocess failed", v |-> v, f |-> f, shared |-> s,
           calls |-> <<"python -m venv">>]}
    ELSE LET m2 == [v.pipx_metadata EXCEPT !.venv_args = venv_args,
                                           !.python_version = PythonVersion]
         IN  {[error  |-> None,
               v      |-> [v EXCEPT !.pipx_metadata = m2],
               f      |-> [f EXCEPT !.kind = "dir", !.venv = TRUE,
                                    !.pth = SharedSitePackages,
                                    !.metadata_file = StoredFile(m2)],
               shared |-> s2,
               calls  |-> <<"python -m venv", "create", "write pipx_shared.pth",
                            "set venv_args">>] : s2 \in shared_libs_create(s)}

\* Results of create_venv(venv_args) on Venv v whose root is in state f, the
\* venv subprocess ending as `proc`; `calls` lists its steps in order
create_venv(v, f, s, venv_args, proc) ==
    IF proc = PipNotLaunched
    THEN {[error |-> "not launched", v |-> v, f |-> f,
           shared |-> s, calls |-> <<"python -m venv">>]}
    ELSE IF subprocess_post_check(proc, TRUE) # None
    THEN {[error |-> subprocess_post_check(proc, TRUE), v |-> v, f |-> f,
           shared |-> s, calls |-> <<"python -m venv">>]}
    ELSE {[error  |-> None,
           v      |-> [v EXCEPT !.pipx_metadata.venv_args = venv_args,
                                !.pipx_metadata.python_version = PythonVersion],
           f      |-> [f EXCEPT !.kind = "dir", !.venv = TRUE,
                                !.pth = SharedSitePackages],
           shared |-> s2,
           calls  |-> <<"python -m venv", "create", "write pipx_shared.pth",
                        "set venv_args">>] : s2 \in shared_libs_create(s)}

\* safe_to_remove that ignores self._existing
safe_to_remove_always(v) == TRUE

\* Venv.safe_to_remove
safe_to_remove(v) == ~v.existing

\* remove_venv with the test of safe_to_remove inverted
remove_venv_inverted(v, f) ==
    IF safe_to_remove(v) THEN f ELSE Missing

\* State of the root after remove_venv on Venv v
remove_venv(v, f) ==
    IF safe_to_remove(v) THEN Missing ELSE f

\* upgrade_packaging_libraries that upgrades the shared venv whatever the linkage
upgrade_packaging_libraries_shared(v, f, s, pip) ==
    {[error |-> None, shared |-> s2, calls |-> <<"upgrade">>, pip |-> PipNotRun]
     : s2 \in shared_libs_upgrade(s)}

\* Results of upgrade_packaging_libraries on Venv v, pip ending as `pip`
upgrade_packaging_libraries(v, f, s, pip) ==
    IF uses_shared_libs(v.existing, f)
    THEN {[error |-> None, shared |-> s2, calls |-> <<"upgrade">>, pip |-> PipNotRun]
          : s2 \in shared_libs_upgrade(s)}
    ELSE {[error |-> subprocess_post_check(pip, TRUE), shared |-> s,
           calls |-> <<"pip install --upgrade pip">>, pip |-> pip]}

-----------------------------------------------------------------------------
(* Venv._update_package_metadata, install_package, upgrade_package *)

\* Venv.package_metadata: the injected packages, overridden by the main one
package_metadata(m) ==
    [p \in DOMAIN m.injected_packages \cup
           (IF m.main_package.package # None THEN {m.main_package.package} ELSE {})
       |-> IF m.main_package.package = p THEN m.main_package
           ELSE m.injected_packages[p]]

\* _update_package_metadata that stores the PackageInfo as the main record
\* and, for an injected package, as its injected record too
update_package_metadata_both_slots(v, f, package, package_or_url, is_main_package, introspection) ==
    IF introspection = Malformed
    THEN [error |-> "inspection failed", v |-> v, f |-> f]
    ELSE LET package_info ==
                 [package         |-> package,
                  package_or_url  |-> parse_specifier_for_metadata(package_or_url),
                  package_version |-> introspection]
             m  == v.pipx_metadata
             m2 == IF is_main_package
                   THEN [m EXCEPT !.main_package = package_info]
                   ELSE [m EXCEPT !.main_package = package_info,
                                  !.injected_packages =
                            [p \in DOMAIN @ \cup {package} |->
                                IF p = package THEN package_info ELSE @[p]]]
         IN  [error |-> None,
              v     |-> [v EXCEPT !.pipx_metadata = m2],
              f     |-> [f EXCEPT !.metadata_file = StoredFile(m2)]]

\* _update_package_metadata on Venv v: error raised by the inspection, or the
\* new PackageInfo stored in the document and the document written
update_package_metadata(v, f, package, package_or_url, is_main_package, introspection) ==
    IF introspection = Malformed
    THEN [error |-> "inspection failed", v |-> v, f |-> f]
    ELSE LET package_info ==
                 [package         |-> package,
                  package_or_url  |-> parse_specifier_for_metadata(package_or_url),
                  package_version |-> introspection]
             m  == v.pipx_metadata
             m2 == IF is_main_package
                   THEN [m EXCEPT !.main_package = package_info]
                   ELSE [m EXCEPT !.injected_packages =
                            [p \in DOMAIN @ \cup {package} |->
                                IF p = package THEN package_info ELSE @[p]]]
         IN  [error |-> None,
              v     |-> [v EXCEPT !.pipx_metadata = m2],
              f     |-> [f EXCEPT !.metadata_file = StoredFile(m2)]]

\* install_package that updates the metadata before looking at pip's return code
install_package_write_first(v, f, package, package_or_url, is_main_package, pip, introspection) ==
    IF pip = PipNotLaunched
    THEN [error |-> "not launched", v |-> v, f |-> f]
    ELSE LET u == update_package_metadata(
                      v, AfterInstall(f, package, pip, introspection), package,
                      parse_specifier_for_install(package_or_url),
                      is_main_package, introspection)
         IN  IF pip # PipExit0 THEN [u EXCEPT !.error = "Error installing"]
             ELSE IF u.error # None THEN u
             ELSE IF package_metadata(u.v.pipx_metadata)[package].package_version = None
             THEN [u EXCEPT !.error = "Unable to install"]
             ELSE u

\* Result of install_package on Venv v whose root is in state f
install_package(v, f, package, package_or_url, is_main_package, pip, introspection) ==
    IF pip = PipNotLaunched
    THEN [error |-> "not launched", v |-> v, f |-> f]
    ELSE IF pip # PipExit0
    THEN [error |-> "Error installing", v |-> v, f |-> f]
    ELSE LET u == update_package_metadata(
                      v, AfterInstall(f, package, pip, introspection), package,
                      parse_specifier_for_install(package_or_url),
                      is_main_package, introspection)
         IN  IF u.error # None THEN u
             ELSE IF package_metadata(u.v.pipx_metadata)[package].package_version = None
             THEN [u EXCEPT !.error = "Unable to install"]
             ELSE u

\* upgrade_package that does not look at pip's return code
upgrade_package_unchecked(v, f, package, package_or_url, is_main_package, pip, introspection) ==
    IF pip = PipNotLaunched
    THEN [error |-> "not launched", v |-> v, f |-> f]
    ELSE update_package_metadata(
             v, AfterInstall(f, package, pip, introspection), package,
             package_or_url, is_main_package, introspection)

\* Result of upgrade_package on Venv v whose root is in state f
upgrade_package(v, f, package, package_or_url, is_main_package, pip, introspection) ==
    IF pip = PipNotLaunched
    THEN [error |-> "not launched", v |-> v, f |-> f]
    ELSE IF subprocess_post_check(pip, TRUE) # None
    THEN [error |-> subprocess_post_check(pip, TRUE), v |-> v, f |-> f]
    ELSE update_package_metadata(
             v, AfterInstall(f, package, pip, introspection), package,
             package_or_url, is_main_package, introspection)

\* install_package_no_deps that takes any one of several new distributions
install_package_no_deps_any(v, f, pip, after) ==
    LET old_package_set == f.installed
        f2 == [f EXCEPT !.installed = after]
        installed_packages == after \ old_package_set
    IN  IF pip = PipNotLaunched
        THEN [error |-> "not launched", result |-> None, f |-> f]
        ELSE IF pip # PipExit0
        THEN [error |-> "Cannot determine package name", result |-> None, f |-> f2]
        ELSE IF Cardinality(installed_packages) >= 1
        THEN [error |-> None, result |-> CHOOSE p \in installed_packages : TRUE,
              f |-> f2]
        ELSE [error |-> "Cannot determine package name", result |-> None, f |-> f2]

\* install_package_no_deps that writes a record for the package it inferred
install_package_no_deps_records(v, f, pip, after) ==
    LET old_package_set == f.installed
        f2 == [f EXCEPT !.installed = after]
        installed_packages == after \ old_package_set
    IN  IF pip = PipNotLaunched
        THEN [error |-> "not launched", result |-> None, f |-> f]
        ELSE IF pip # PipExit0
        THEN [error |-> "Cannot determine package name", result |-> None, f |-> f2]
        ELSE IF Cardinality(installed_packages) = 1
        THEN LET p == CHOOSE p \in installed_packages : TRUE
             IN  [error |-> None, result |-> p,
                  f |-> [f2 EXCEPT !.metadata_file = StoredFile(
                           [v.pipx_metadata EXCEPT !.main_package =
                              [package |-> p, package_or_url |-> None,
                               package_version |-> None]])]]
        ELSE [error |-> "Cannot determine package name", result |-> None, f |-> f2]

\* Result of install_package_no_deps on Venv v: the root when pip has run
\* lists the distributions `after`
install_package_no_deps(v, f, pip, after) ==
    LET old_package_set == f.installed
        f2 == [f EXCEPT !.installed = after]
        installed_packages == after \ old_package_set
    IN  IF pip = PipNotLaunched
        THEN [error |-> "not launched", result |-> None, f |-> f]
        ELSE IF pip # PipExit0
        THEN [error |-> "Cannot determine package name", result |-> None, f |-> f2]
        ELSE IF Cardinality(installed_packages) = 1
        THEN [error |-> None, result |-> CHOOSE p \in installed_packages : TRUE,
              f |-> f2]
        ELSE [error |-> "Cannot determine package name", result |-> None, f |-> f2]

-----------------------------------------------------------------------------
(* VenvContainer *)

\* self._root.iterdir(): every entry directly under the container root
iterdir == {r \in Roots : fs[r].kind # "missing"}

\* iter_venv_dirs that yields every entry
iter_venv_dirs_unfiltered == IF ~container THEN {} ELSE iterdir

\* VenvContainer.iter_venv_dirs: nothing if the root is no directory, else
\* the entries that are directories
iter_venv_dirs ==
    IF ~container THEN {} ELSE {entry \in iterdir : fs[entry].kind = "dir"}

\* the orders in which iterdir can list the directories D
Orders(D) ==
    {q \in [1..Cardinality(D) -> D] : \A i, j \in DOMAIN q : i # j => q[i] # q[j]}

\* VenvContainer.verify_shared_libs over the directories in `order`: Venv(p)
\* for each, stopping at the first that raises; `yielded` are the paths the
\* generator has handed out so far
RECURSIVE verify_shared_libs(_, _, _, _)
verify_shared_libs(order, s, calls, yielded) ==
    IF order = <<>>
    THEN {[error |-> None, shared |-> s, calls |-> calls, yielded |-> yielded]}
    ELSE UNION {
           IF o.error # None
           THEN {[error |-> o.error, shared |-> o.shared,
                  calls |-> calls \o o.calls,
                  yielded |-> Append(yielded, Head(order))]}
           ELSE verify_shared_libs(Tail(order), o.shared, calls \o o.calls,
                                   Append(yielded, Head(order)))
           : o \in VenvInit(fs[Head(order)], s)}

\* the characters of the names given to get_venv_dir
Chars == {"a", "A", "-", "_", ".", "/"}

\* str.lower of one character
lower(ch) == IF ch = "A" THEN "a" ELSE ch

\* canonicalize_name: every run of "-", "_" and "." becomes one "-", and the
\* result is lower-cased
RECURSIVE canonicalize_name(_)
canonicalize_name(name) ==
    IF name = <<>> THEN <<>>
    ELSE IF Head(name) \in {"-", "_", "."}
    THEN IF Len(name) > 1 /\ name[2] \in {"-", "_", "."}
         THEN canonicalize_name(Tail(name))
         ELSE <<"-">> \o canonicalize_name(Tail(name))
    ELSE <<lower(Head(name))>> \o canonicalize_name(Tail(name))

\* the components of a path string: the non-empty pieces between "/"
RECURSIVE Parts(_, _)
Parts(s, piece) ==
    IF s = <<>> THEN (IF piece = <<>> THEN <<>> ELSE <<piece>>)
    ELSE IF Head(s) = "/"
    THEN (IF piece = <<>> THEN <<>> ELSE <<piece>>) \o Parts(Tail(s), <<>>)
    ELSE Parts(Tail(s), Append(piece, Head(s)))

\* self._root of the container, as its components
ContainerRoot == <<"/", "venvs">>

\* Path.joinpath(s): the components of s appended to the path, or, s being
\* absolute, the path s alone
joinpath(path, s) ==
    IF s # <<>> /\ Head(s) = "/" THEN <<"/">> \o Parts(s, <<>>)
    ELSE path \o Parts(s, <<>>)

\* VenvContainer.get_venv_dir
get_venv_dir(package) == joinpath(ContainerRoot, canonicalize_name(package))

-----------------------------------------------------------------------------
(* Actions: one per method call *)

VerifySharedLibs ==
    /\ ops < MaxOps
    /\ \E order \in Orders(iter_venv_dirs) :
         \E o \in verify_shared_libs(order, shared, <<>>, <<>>) :
            /\ shared' = o.shared
            /\ last' = [NoOp EXCEPT !.op = "verify_shared_libs",
                                    !.yielded = o.yielded,
                                    !.error = o.error, !.calls = o.calls]
    /\ ops' = ops + 1
    /\ UNCHANGED constructing
    /\ UNCHANGED <<container, fs, venvs>>

CreateVenv(i) ==
    /\ ops < MaxOps
    /\ \E venv_args \in VenvArgs, proc \in {PipExit0, PipNonZero, PipNotLaunched} :
         \E o \in create_venv(venvs[i], fs[venvs[i].root], shared, venv_args, proc) :
            /\ venvs' = [venvs EXCEPT ![i] = o.v]
            /\ fs' = [fs EXCEPT ![venvs[i].root] = o.f]
            /\ container' = (container \/ o.error = None)
            /\ shared' = o.shared
            /\ last' = [NoOp EXCEPT !.op = "create_venv", !.inst = i,
                                    !.root = venvs[i].root, !.pip = proc,
                                    !.venv_args = venv_args,
                                    !.error = o.error, !.calls = o.calls]
    /\ ops' = ops + 1
    /\ UNCHANGED constructing

RemoveVenv(i) ==
    /\ ops < MaxOps
    /\ fs' = [fs EXCEPT ![venvs[i].root] = remove_venv(venvs[i], @)]
    /\ last' = [NoOp EXCEPT !.op = "remove_venv", !.inst = i,
                            !.root = venvs[i].root]
    /\ ops' = ops + 1
    /\ UNCHANGED constructing
    /\ UNCHANGED <<container, shared, venvs>>

UpgradePackagingLibraries(i) ==
    /\ ops < MaxOps
    /\ \E pip \in PipOutcomes(fs[venvs[i].root]) :
         \E o \in upgrade_packaging_libraries(venvs[i], fs[venvs[i].root], shared, pip) :
            /\ shared' = o.shared
            /\ last' = [NoOp EXCEPT !.op = "upgrade_packaging_libraries",
                                    !.inst = i, !.root = venvs[i].root,
                                    !.pip = o.pip, !.error = o.error,
                                    !.calls = o.calls]
    /\ ops' = ops + 1
    /\ UNCHANGED constructing
    /\ UNCHANGED <<container, fs, venvs>>

\* the inspector runs only after pip exited 0
Introspections(pip) ==
    IF pip = PipExit0 THEN IntrospectionResults ELSE {None}

InstallPackage(i) ==
    /\ ops < MaxOps
    /\ \E package \in Packages, package_or_url \in Specs, is_main_package \in BOOLEAN,
          pip \in PipOutcomes(fs[venvs[i].root]) :
         \E introspection \in Introspections(pip) :
            LET o == install_package(venvs[i], fs[venvs[i].root], package,
                                     package_or_url, is_main_package, pip,
                                     introspection)
            IN  /\ venvs' = [venvs EXCEPT ![i] = o.v]
                /\ fs' = [fs EXCEPT ![venvs[i].root] = o.f]
                /\ last' = [NoOp EXCEPT !.op = "install_package", !.inst = i,
                               !.root = venvs[i].root, !.package = package,
                               !.package_or_url =
                                   parse_specifier_for_install(package_or_url),
                               !.is_main_package = is_main_package,
                               !.pip = pip, !.introspection = introspection,
                               !.error = o.error]
    /\ ops' = ops + 1
    /\ UNCHANGED constructing
    /\ UNCHANGED <<container, shared>>

UpgradePackage(i) ==
    /\ ops < MaxOps
    /\ \E package \in Packages, package_or_url \in Specs, is_main_package \in BOOLEAN,
          pip \in PipOutcomes(fs[venvs[i].root]) :
         \E introspection \in Introspections(pip) :
            LET o == upgrade_package(venvs[i], fs[venvs[i].root], package,
                                     package_or_url, is_main_package, pip,
                                     introspection)
            IN  /\ venvs' = [venvs EXCEPT ![i] = o.v]
                /\ fs' = [fs EXCEPT ![venvs[i].root] = o.f]
                /\ last' = [NoOp EXCEPT !.op = "upgrade_package", !.inst = i,
                               !.root = venvs[i].root, !.package = package,
                               !.package_or_url = package_or_url,
                               !.is_main_package = is_main_package,
                               !.pip = pip, !.introspection = introspection,
                               !.error = o.error]
    /\ ops' = ops + 1
    /\ UNCHANGED constructing
    /\ UNCHANGED <<container, shared>>

InstallPackageNoDeps(i) ==
    /\ ops < MaxOps
    /\ \E pip \in PipOutcomes(fs[venvs[i].root]),
          new \in SUBSET Packages :
         LET o == install_package_no_deps(venvs[i], fs[venvs[i].root], pip,
                                          fs[venvs[i].root].installed \cup new)
         IN  /\ fs' = [fs EXCEPT ![venvs[i].root] = o.f]
             /\ last' = [NoOp EXCEPT !.op = "install_package_no_deps", !.inst = i,
                            !.root = venvs[i].root, !.pip = pip,
                            !.error = o.error, !.result = o.result]
    /\ ops' = ops + 1
    /\ UNCHANGED constructing
    /\ UNCHANGED <<container, shared, venvs>>

-----------------------------------------------------------------------------

\* container.get_venv_dir(package) by a caller
GetVenvDir(package) ==
    /\ last' = [NoOp EXCEPT !.op = "get_venv_dir", !.package = package,
                            !.result = get_venv_dir(package)]
    /\ UNCHANGED <<container, fs, shared, venvs, ops, constructing>>

InitRootStates == {Missing, File, EmptyDir, LegacyVenv, LinkedVenv}

\* The two entries are interchangeable: of two initial states that differ by
\* swapping them, one is kept
KindRank(f) ==
    IF f = LinkedVenv THEN 0 ELSE IF f = LegacyVenv THEN 1
    ELSE IF f = EmptyDir THEN 2 ELSE IF f = File THEN 3 ELSE 4

Init ==
    /\ container \in BOOLEAN
    /\ fs \in [Roots -> InitRootStates]
    /\ KindRank(fs["r1"]) <= KindRank(fs["r2"])
    /\ container = FALSE => \A r \in Roots : fs[r] = Missing
    /\ shared \in SharedStates
    /\ venvs = <<>>
    /\ ops = 0
    /\ last = NoOp
    /\ constructing = [p \in Procs |-> NotConstructing]

Next ==
    \/ \E r \in Roots : Construct(r)
    \/ VerifySharedLibs
    \/ \E i \in DOMAIN venvs : CreateVenv(i)
    \/ \E i \in DOMAIN venvs : RemoveVenv(i)
    \/ \E i \in DOMAIN venvs : UpgradePackagingLibraries(i)
    \/ \E i \in DOMAIN venvs : InstallPackage(i)
    \/ \E i \in DOMAIN venvs : UpgradePackage(i)
    \/ \E i \in DOMAIN venvs : InstallPackageNoDeps(i)

Spec == Init /\ [][Next]_vars

\* the package names given to get_venv_dir
Names == UNION {[1..n -> Chars] : n \in 1..MaxNameLen}

\* get_venv_dir alone: a container and calls of get_venv_dir with any name
InitResolve ==
    /\ container = TRUE
    /\ fs = [r \in Roots |-> Missing]
    /\ shared = "current"
    /\ venvs = <<>>
    /\ ops = 0
    /\ last = NoOp
    /\ constructing = [p \in Procs |-> NotConstructing]

NextResolve == \E package \in Names : GetVenvDir(package)

SpecResolve == InitResolve /\ [][NextResolve]_vars

\* Two processes that each run Venv(path) statement by statement on roots
\* that hold an environment, and other processes that change the shared venv
InitRace ==
    /\ container = TRUE
    /\ fs \in [Roots -> {LinkedVenv, LegacyVenv}]
    /\ KindRank(fs["r1"]) <= KindRank(fs["r2"])
    /\ shared \in SharedStates
    /\ venvs = <<>>
    /\ ops = 0
    /\ last = NoOp
    /\ constructing = [p \in Procs |-> NotConstructing]

NextRace ==
    \/ \E p \in Procs, r \in Roots : CtorStart(p, r)
    \/ \E p \in Procs : CtorStep(p)
    \/ OtherProcessChangesShared

SpecRace == InitRace /\ [][NextRace]_vars

-----------------------------------------------------------------------------
(* Properties *)

\* the Venv object the last operation ran on, and the path it is for
LastVenv == venvs[last.inst]
InstallOps == {"install_package", "upgrade_package"}

\* the root holds at least one entry
NonEmpty(f) ==
    f.kind = "dir" /\ (f.venv \/ f.pth = SharedSitePackages \/ Len(f.metadata_file) > 0)

\* C1: install_package with pip exiting 0 and the inspector reporting no
\* version fails with the missing-version error and leaves the metadata
\* document, in memory and on disk, as it was before the call.
C1_MissingVersionLeavesMetadata ==
    [][(last'.op = "install_package" /\ last'.pip = PipExit0
            /\ last'.introspection = None)
        => /\ last'.error = "Unable to install"
           /\ venvs'[last'.inst].pipx_metadata = venvs[last'.inst].pipx_metadata
           /\ fs'[last'.root].metadata_file = fs[last'.root].metadata_file]_vars

\* C2: remove_venv on a Venv whose _existing is true changes nothing on disk,
\* whatever ran on the object before; on one whose _existing is false it
\* deletes the root, and only the root.
C2_RemoveOnlyWhenNotExisting ==
    [][last'.op = "remove_venv"
        => /\ container' = container
           /\ IF venvs[last'.inst].existing
              THEN fs' = fs
              ELSE fs' = [fs EXCEPT ![last'.root] = Missing]]_vars

\* C2 witness: remove_venv has run on a pre-existing Venv after "bar" was
\* installed through it as the main package, and the environment is still there
C2_Witness ==
    /\ last.op = "remove_venv"
    /\ LastVenv.existing
    /\ LastVenv.pipx_metadata.main_package.package = "bar"
    /\ fs[last.root].venv

\* C3 as claimed: every Venv constructed on a root another Venv was already
\* constructed on has _existing true, and remove_venv on it leaves the root
\* directory in place.
C3_SecondConstructionIsExisting ==
    [][/\ (last'.op = "Venv" /\ last'.error = None
             /\ \E i \in DOMAIN venvs : venvs[i].root = last'.root)
          => venvs'[last'.inst].existing
       /\ (last'.op = "remove_venv"
             /\ \E i \in DOMAIN venvs : i < last'.inst /\ venvs[i].root = last'.root)
          => fs'[last'.root].kind = "dir"]_vars

\* C3 amended: a second Venv on the same root has _existing true iff the root
\* holds at least one entry when it is constructed, and remove_venv on a
\* second Venv whose _existing is true leaves the root as it is.
C3_SecondConstruction ==
    [][/\ (last'.op = "Venv" /\ last'.error = None
             /\ \E i \in DOMAIN venvs : venvs[i].root = last'.root)
          => (venvs'[last'.inst].existing <=> NonEmpty(fs[last'.root]))
       /\ (last'.op = "remove_venv" /\ venvs[last'.inst].existing
             /\ \E i \in DOMAIN venvs : i < last'.inst /\ venvs[i].root = last'.root)
          => fs'[last'.root] = fs[last'.root]]_vars

\* C3 witness: remove_venv has run on the second Venv of a root, which is
\* pre-existing, and the directory is still there
C3_Witness ==
    /\ last.op = "remove_venv"
    /\ last.inst = 2
    /\ venvs[1].root = venvs[2].root
    /\ venvs[2].existing
    /\ fs[last.root].kind = "dir"

\* C4: _existing is set by the constructor to true iff the root exists and
\* holds at least one entry; the constructor does not fail on a missing or
\* empty root; no later operation changes _existing.
C4_ExistingSetOnceAtConstruction ==
    [][/\ (last'.op = "Venv" /\ ~NonEmpty(fs[last'.root]) /\ fs[last'.root].kind # "file")
          => (last'.error = None /\ ~venvs'[last'.inst].existing)
       /\ (last'.op = "Venv" /\ last'.error = None /\ NonEmpty(fs[last'.root]))
          => venvs'[last'.inst].existing
       /\ \A i \in DOMAIN venvs :
             i \in DOMAIN venvs' /\ venvs'[i].existing = venvs[i].existing]_vars

\* C4 witness: create_venv has filled the root of a Venv constructed on an
\* empty or missing root, whose _existing is still false
C4_Witness ==
    /\ last.op = "create_venv"
    /\ last.error = None
    /\ ~LastVenv.existing
    /\ NonEmpty(fs[last.root])

\* C5: constructing a Venv on a pre-existing root that holds the marker file
\* calls create when the shared venv is invalid, upgrade when it is valid but
\* stale and neither when it is valid and current; if the shared venv is
\* invalid afterwards the constructor raises and no Venv object results, so a
\* constructor that returns leaves a valid shared venv.
C5_ReconcileAtConstruction ==
    [][(last'.op = "Venv" /\ NonEmpty(fs[last'.root])
            /\ fs[last'.root].pth = SharedSitePackages)
        => /\ shared = "invalid" => last'.calls = <<"create">>
           /\ shared = "stale" => last'.calls = <<"upgrade">>
           /\ shared = "current" => last'.calls = <<>>
           /\ shared' = "invalid" => (last'.error # None /\ venvs' = venvs)
           /\ last'.error = None
                 => (shared' # "invalid" /\ Len(venvs') = Len(venvs) + 1)]_vars

\* C5 witness: the constructor has returned for a pre-existing linked root
\* after calling create on the shared venv
C5_Witness ==
    /\ last.op = "Venv"
    /\ last.error = None
    /\ last.calls = <<"create">>
    /\ LastVenv.existing
    /\ fs[last.root].pth = SharedSitePackages
    /\ shared = "current"
\* C6: install_package_no_deps returns a name iff pip exits 0 and exactly
\* one distribution is listed after the call that was not listed before it,
\* and the name returned is that distribution; otherwise it fails with the
\* cannot-determine-package-name error.
C6_NameIsTheSingleNewPackage ==
    [][(last'.op = "install_package_no_deps" /\ last'.pip # PipNotLaunched)
        => LET new == fs'[last'.root].installed \ fs[last'.root].installed
           IN  /\ last'.result # None
                     <=> (last'.pip = PipExit0 /\ Cardinality(new) = 1)
               /\ last'.result # None => (new = {last'.result} /\ last'.error = None)
               /\ last'.result = None
                     => last'.error = "Cannot determine package name"]_vars

\* C6 witness: install_package_no_deps has returned "bar"
C6_Witness ==
    /\ last.op = "install_package_no_deps"
    /\ last.pip = PipExit0
    /\ last.result = "bar"
    /\ "bar" \in fs[last.root].installed

\* C7: install_package and upgrade_package change the metadata document, in
\* memory or on disk, only when pip exited 0 and the inspector returned a
\* result; when pip exits non-zero or the inspector's output is malformed they
\* fail and leave both documents unchanged.
C7_MetadataWrittenAfterIntrospection ==
    [][last'.op \in InstallOps
        => LET unchanged ==
                   /\ venvs' = venvs
                   /\ fs'[last'.root].metadata_file = fs[last'.root].metadata_file
           IN  /\ (last'.pip # PipExit0 \/ last'.introspection = Malformed)
                     => (last'.error # None /\ unchanged)
               /\ ~unchanged
                     => (last'.pip = PipExit0 /\ last'.introspection \in Versions)]_vars

\* C7 witness: upgrade_package has failed on pip's non-zero exit in an
\* environment that has a stored metadata document
C7_Witness ==
    /\ last.op = "upgrade_package"
    /\ last.pip = PipNonZero
    /\ last.error # None
    /\ fs[last.root].metadata_file # NoFile

\* C8: once an environment is materialized its linkage mode does not change
\* under the constructor, create_venv, install_package, upgrade_package and
\* upgrade_packaging_libraries: the marker file neither appears nor
\* disappears, and uses_shared_libs of every Venv of that root keeps its value.
C8_LinkageModeIsStable ==
    [][last'.op \in {"Venv", "create_venv", "install_package", "upgrade_package",
                     "upgrade_packaging_libraries"}
        => \A r \in Roots :
             fs[r].venv
               => /\ (fs'[r].pth = None) = (fs[r].pth = None)
                  /\ \A i \in DOMAIN venvs :
                        venvs[i].root = r
                          => uses_shared_libs(venvs'[i].existing, fs'[r])
                               = uses_shared_libs(venvs[i].existing, fs[r])]_vars

\* C9 as claimed: verify_shared_libs changes neither the environment roots,
\* nor their metadata documents, nor the state of the shared venv.
C9_VerifyMutatesNothing ==
    [][last'.op = "verify_shared_libs"
        => (container' = container /\ fs' = fs /\ venvs' = venvs
              /\ shared' = shared)]_vars

\* C9 amended: verify_shared_libs changes neither the environment roots nor
\* their metadata documents; it changes the shared venv only by the
\* constructor's reconciliation, that is only when a directory under the root
\* is a non-empty environment holding the marker file and the shared venv is
\* invalid (create is called) or stale (upgrade is called).
C9_VerifyOnlyReconciles ==
    [][last'.op = "verify_shared_libs"
        => LET linked == \E r \in Roots :
                            NonEmpty(fs[r]) /\ fs[r].pth = SharedSitePackages
           IN  /\ container' = container /\ fs' = fs /\ venvs' = venvs
               /\ (shared = "current" \/ ~linked)
                     => (shared' = shared /\ last'.calls = <<>>)
               /\ shared' # shared
                     => /\ last'.calls # <<>>
                        /\ last'.calls[1] =
                              (IF shared = "invalid" THEN "create" ELSE "upgrade")]_vars

\* C9 witness: verify_shared_libs has returned after creating the shared venv
C9_Witness ==
    /\ last.op = "verify_shared_libs"
    /\ last.error = None
    /\ "create" \in {last.calls[k] : k \in DOMAIN last.calls}
    /\ shared = "current"

\* C10 as claimed: for every return code of pip and every result of the
\* inspector, upgrade_package on an already resolved specifier ends as install_package does with the same
\* arguments (both succeed or both fail) and leaves the same metadata
\* document, in memory and on disk.
C10_UpgradeSameAsInstall ==
    [][(last'.op = "upgrade_package"
          /\ parse_specifier_for_install(last'.package_or_url) = last'.package_or_url)
        => LET o == install_package(venvs[last'.inst], fs[last'.root],
                                    last'.package, last'.package_or_url,
                                    last'.is_main_package, last'.pip,
                                    last'.introspection)
           IN  /\ (last'.error = None) = (o.error = None)
               /\ venvs'[last'.inst] = o.v
               /\ fs'[last'.root] = o.f]_vars

\* C10 amended: upgrade_package ends as install_package does and leaves the
\* same metadata document when the specifier is already in the form
\* install_package hands to pip, except that upgrade_package makes no version
\* check after the update: where install_package fails with the
\* missing-version error, upgrade_package succeeds (both have written the same
\* document).
C10_UpgradeAsInstallButNoVersionCheck ==
    [][(last'.op = "upgrade_package"
          /\ parse_specifier_for_install(last'.package_or_url) = last'.package_or_url)
        => LET o == install_package(venvs[last'.inst], fs[last'.root],
                                    last'.package, last'.package_or_url,
                                    last'.is_main_package, last'.pip,
                                    last'.introspection)
           IN  /\ (last'.error = None)
                     = (o.error = None \/ o.error = "Unable to install")
               /\ venvs'[last'.inst] = o.v
               /\ fs'[last'.root] = o.f]_vars

\* C10 witness: upgrade_package has succeeded although the inspector
\* reported no version, and stored the record
C10_Witness ==
    /\ last.op = "upgrade_package"
    /\ last.package_or_url = "norm"
    /\ last.pip = PipExit0
    /\ last.introspection = None
    /\ last.error = None
    /\ last.is_main_package
    /\ LastVenv.pipx_metadata.main_package.package_version = None
    /\ LastVenv.pipx_metadata.main_package.package = last.package

\* C11: upgrade_packaging_libraries does exactly one of two things: on a
\* Venv that uses the shared libraries it calls the shared venv's upgrade and
\* runs no pip in the environment; on one that does not it runs pip in upgrade
\* mode for pip alone and leaves the shared venv as it is.
C11_UpgradeSharedOrPip ==
    [][last'.op = "upgrade_packaging_libraries"
        => LET v == venvs[last'.inst]
               linked == ~v.existing \/ fs[last'.root].pth = SharedSitePackages
           IN  /\ linked => (last'.calls = <<"upgrade">> /\ last'.pip = PipNotRun)
               /\ ~linked => (last'.calls = <<"pip install --upgrade pip">>
                                /\ last'.pip # PipNotRun /\ shared' = shared)
               /\ fs' = fs /\ venvs' = venvs]_vars

\* C11 witness: upgrade_packaging_libraries has run pip for an environment
\* without the marker file while the shared venv is stale
C11_Witness ==
    /\ last.op = "upgrade_packaging_libraries"
    /\ last.calls = <<"pip install --upgrade pip">>
    /\ last.pip = PipExit0
    /\ LastVenv.existing
    /\ fs[last.root].pth = None
    /\ shared = "stale"

\* C12: create_venv runs its steps in the order venv creation, shared venv
\* create, marker file, in-memory metadata.  When the venv subprocess exits
\* non-zero or cannot be started, create_venv fails and none of the later
\* steps happens; when create_venv completes, the marker file exists and
\* holds the shared venv's site-packages directory.
C12_CreateVenvStepOrder ==
    [][last'.op = "create_venv"
        => /\ last'.pip # PipExit0
                => /\ last'.error # None
                   /\ last'.calls = <<"python -m venv">>
                   /\ shared' = shared /\ fs' = fs /\ venvs' = venvs
           /\ last'.pip = PipExit0
                => /\ last'.error = None
                   /\ last'.calls = <<"python -m venv", "create",
                                      "write pipx_shared.pth", "set venv_args">>
                   /\ fs'[last'.root].kind = "dir"
                   /\ fs'[last'.root].venv
                   /\ fs'[last'.root].pth = SharedSitePackages]_vars

\* C12 witness: create_venv has failed on the venv subprocess's non-zero exit
\* with the shared venv invalid and the root without a marker file
C12_Witness ==
    /\ last.op = "create_venv"
    /\ last.pip = PipNonZero
    /\ last.error # None
    /\ shared = "invalid"
    /\ fs[last.root].pth = None

\* C13: create_venv records the venv_args and the interpreter version in the
\* in-memory metadata document only and leaves the stored document as it is;
\* the stored document changes only by an install_package or upgrade_package
\* of a Venv, and what is then stored is that Venv's in-memory document, with
\* the venv_args and interpreter version it held before the call.
C13_VenvArgsStoredWithNextInstall ==
    [][/\ (last'.op = "create_venv" /\ last'.error = None)
          => /\ venvs'[last'.inst].pipx_metadata =
                   [venvs[last'.inst].pipx_metadata
                       EXCEPT !.venv_args = last'.venv_args,
                              !.python_version = PythonVersion]
             /\ fs'[last'.root].metadata_file = fs[last'.root].metadata_file
       /\ \A r \in Roots :
            (fs'[r].metadata_file # fs[r].metadata_file /\ last'.op # "remove_venv")
               => /\ last'.op \in InstallOps /\ last'.root = r
                  /\ fs'[r].metadata_file = <<venvs'[last'.inst].pipx_metadata>>
                  /\ venvs'[last'.inst].pipx_metadata.venv_args
                        = venvs[last'.inst].pipx_metadata.venv_args
                  /\ venvs'[last'.inst].pipx_metadata.python_version
                        = venvs[last'.inst].pipx_metadata.python_version]_vars

\* C13 witness: an install_package after create_venv has stored the venv_args
\* create_venv recorded
C13_Witness ==
    /\ last.op = "install_package"
    /\ last.error = None
    /\ ~LastVenv.existing
    /\ Len(fs[last.root].metadata_file) = 1
    /\ fs[last.root].metadata_file[1].venv_args = <<"--system-site-packages">>
    /\ fs[last.root].metadata_file[1].python_version = PythonVersion

SameSpelling(P1, P2) ==
    /\ Len(P1) = Len(P2)
    /\ \A k \in DOMAIN P1 :
          \/ lower(P1[k]) = lower(P2[k])
          \/ {P1[k], P2[k]} \subseteq {"-", "_"}

\* C15 as claimed: get_venv_dir gives one path for all names that differ only
\* in letter case or in "-" against "_", and the path it gives is always a
\* direct child of the container root.
C15_ResolveIsCanonicalDirectChild ==
    last.op = "get_venv_dir"
        => /\ \A P2 \in Names :
                SameSpelling(last.package, P2) => get_venv_dir(P2) = last.result
           /\ Len(last.result) = Len(ContainerRoot) + 1
           /\ SubSeq(last.result, 1, Len(ContainerRoot)) = ContainerRoot

\* C16: an install_package or upgrade_package that returns without error has
\* stored the PackageInfo of its package in one slot of the document: as the
\* main record, the injected records staying as they were, when
\* is_main_package; as injected_packages[package], the main record and every
\* other injected record staying as they were, otherwise. The document then
\* stored under the root is the whole in-memory document.
C16_RecordStoredInOneSlot ==
    [][(last'.op \in InstallOps /\ last'.error = None)
        => LET m  == venvs[last'.inst].pipx_metadata
               m2 == venvs'[last'.inst].pipx_metadata
               p  == last'.package
           IN  /\ last'.is_main_package
                    => /\ m2.main_package.package = p
                       /\ m2.main_package.package_version = last'.introspection
                       /\ m2.injected_packages = m.injected_packages
               /\ ~last'.is_main_package
                    => /\ m2.injected_packages[p].package = p
                       /\ m2.injected_packages[p].package_version = last'.introspection
                       /\ m2.main_package = m.main_package
                       /\ DOMAIN m2.injected_packages = DOMAIN m.injected_packages \cup {p}
                       /\ \A q \in DOMAIN m.injected_packages \ {p} :
                             m2.injected_packages[q] = m.injected_packages[q]
               /\ m2.venv_args = m.venv_args
               /\ m2.python_version = m.python_version
               /\ fs'[last'.root].metadata_file = <<m2>>]_vars

\* C16 witness: a package was injected beside the main record and an earlier
\* injected record, and the document is stored
C16_Witness ==
    /\ last.op \in InstallOps
    /\ last.error = None
    /\ ~last.is_main_package
    /\ last.package = "bar"
    /\ LastVenv.pipx_metadata.main_package.package = "foo"
    /\ DOMAIN LastVenv.pipx_metadata.injected_packages = {"foo", "bar"}
    /\ fs[last.root].metadata_file = <<LastVenv.pipx_metadata>>

\* C17: the reconciliation in Venv.__init__ is a check followed by an act,
\* with no lock: whatever the other process is doing, a process inside its
\* constructor can run its next statement; it calls create because its own
\* first read of is_valid was false, whatever the shared venv is by then;
\* it returns or raises by its own final read, whatever the shared venv is
\* by then.
C17_CheckThenActWithoutLock ==
    \A p \in Procs :
       LET c == constructing[p]
       IN  /\ c.pc \notin {"idle", "returned", "raised"} => ENABLED CtorStep(p)
           /\ (c.pc = "create" \/ "create" \in {c.calls[k] : k \in DOMAIN c.calls})
                 => c.first = "invalid"
           /\ (c.pc \in {"return", "returned"} /\ c.final # None) => c.final = "valid"
           /\ c.pc \in {"raise", "raised"} => c.final = "invalid"

\* C17 witness: both processes read the shared venv as invalid and both
\* called create, and the constructor of p1 has just returned while the
\* shared venv is invalid, changed after p1's final read
C17_Witness ==
    /\ constructing["p1"].calls = <<"create">>
    /\ constructing["p2"].calls = <<"create">>
    /\ constructing["p1"].first = "invalid"
    /\ constructing["p2"].first = "invalid"
    /\ constructing["p1"].pc = "returned"
    /\ constructing["p1"].final = "valid"
    /\ last.op = "Venv" /\ last.error = None /\ last.calls = <<"create">>
    /\ ~is_valid(shared)

\* C18: Venv(path) calls neither shared_libs.create nor shared_libs.upgrade,
\* does not raise the invalid-shared-venv error and leaves the shared venv as
\* it is, whatever its state, when the path is missing or an empty directory
\* or holds no pipx_shared.pth.
C18_NoReconcileWithoutMarker ==
    [][(/\ last'.op = "Venv"
        /\ LET f == fs[last'.root]
           IN  \/ f.kind = "missing"
               \/ (f.kind = "dir" /\ ~f.venv /\ f.metadata_file = <<>> /\ f.pth = None)
               \/ f.pth = None)
        => /\ last'.calls = <<>>
           /\ last'.error # "shared venv invalid"
           /\ shared' = shared]_vars

\* C18 witness: Venv(path) has returned for an environment without the marker
\* file while the shared venv is invalid
C18_Witness ==
    /\ last.op = "Venv"
    /\ last.error = None
    /\ last.calls = <<>>
    /\ LastVenv.existing
    /\ fs[last.root].venv
    /\ fs[last.root].pth = None
    /\ shared = "invalid"

\* C19 as claimed: install_package, main or injected, with pip exiting 0 and
\* the inspector answering, raises the missing-version error exactly when the
\* version the inspector found for the package just installed is absent,
\* also when an injected install names the package of the main record.
C19_VersionCheckReadsNewRecord ==
    [][(/\ last'.op = "install_package"
        /\ last'.pip = PipExit0
        /\ last'.introspection \in Versions)
        => (last'.error = "Unable to install" <=> last'.introspection = None)]_vars

\* the names that have a record in the metadata document m
Recorded(m) ==
    DOMAIN m.injected_packages
        \cup (IF m.main_package.package # None THEN {m.main_package.package} ELSE {})

\* C20 as claimed: install_package_no_deps changes the metadata document
\* neither in memory nor on disk, and after a call that returns the package
\* it inferred is installed and has no record in the document.
C20_NoDepsLeavesNoRecord ==
    [][last'.op = "install_package_no_deps"
        => /\ venvs' = venvs
           /\ \A r \in Roots : fs'[r].metadata_file = fs[r].metadata_file
           /\ last'.error = None
                => /\ last'.result \in fs'[last'.root].installed
                   /\ last'.result \notin Recorded(venvs'[last'.inst].pipx_metadata)
                   /\ \A k \in DOMAIN fs'[last'.root].metadata_file :
                         last'.result \notin Recorded(fs'[last'.root].metadata_file[k])]_vars

\* C20 amended: install_package_no_deps changes the metadata document neither
\* in memory nor on disk, whether it returns or raises; after a call that
\* returns, the package it inferred is installed, was not installed before,
\* and the document holds for it what it held before the call: a record only
\* if an earlier install_package or upgrade_package had stored one.
C20_NoDepsLeavesMetadata ==
    [][last'.op = "install_package_no_deps"
        => /\ venvs' = venvs
           /\ \A r \in Roots : fs'[r].metadata_file = fs[r].metadata_file
           /\ \A r \in Roots \ {last'.root} : fs'[r] = fs[r]
           /\ last'.error = None
                => /\ last'.result \in fs'[last'.root].installed
                   /\ last'.result \notin fs[last'.root].installed
                   /\ Recorded(venvs'[last'.inst].pipx_metadata)
                         = Recorded(venvs[last'.inst].pipx_metadata)]_vars

\* C20 witness: install_package_no_deps has returned "bar", which is now
\* installed and has no record in the document, in memory or stored
C20_Witness ==
    /\ last.op = "install_package_no_deps"
    /\ last.error = None
    /\ last.result = "bar"
    /\ "bar" \in fs[last.root].installed
    /\ Recorded(LastVenv.pipx_metadata) = {"foo"}
    /\ fs[last.root].metadata_file = <<LastVenv.pipx_metadata>>

====
